---- MODULE Spec2Model ----
(***************************************************************************)
(* Model of app.py, the Streamlit email generator.  One script run is:     *)
(* load_api_key(), build the model handle, render the form, and, when the  *)
(* form was submitted, validate the fields, call generate_email() and show *)
(* the result.  Streamlit re-runs the script from the top on every         *)
(* interaction.  Text is modelled as a sequence of characters; the literal *)
(* parts of the prompt and of the messages are sequences of tokens.        *)
(***************************************************************************)
EXTENDS Naturals, Sequences, FiniteSets

VARIABLES
    pc,             \* position of the current script run
    env,            \* what load_api_key met: secrets lookup, .env loading, variable, configure
    submitted,      \* value of st.form_submit_button in this run
    form,           \* values of the form widgets in this run
    prompt,         \* argument of the last model.generate_content call of this run
    calls,          \* number of model.generate_content calls of this run
    response,       \* how the last model.generate_content / response.text ended
    generated_email,\* value generate_email returned in this run
    ui,             \* what this run has put on the page
    shownFailures   \* texts shown as the draft after a failed remote call, over the session

vars == <<pc, env, submitted, form, prompt, calls, response, generated_email, ui, shownFailures>>

-----------------------------------------------------------------------------
(* Bounds and input sets *)

MaxTextLen == 1

Chars == {"a", " "}

Whitespace == {" "}

RECURSIVE StrsOfLen(_)
StrsOfLen(n) ==
    IF n = 0 THEN {<<>>}
    ELSE {Append(s, c) : s \in StrsOfLen(n - 1), c \in Chars}

StrsUpTo(n) == UNION {StrsOfLen(k) : k \in 0..n}

\* What a user can type into a text widget: nothing, only whitespace, text,
\* text with surrounding whitespace.
FieldInputs == {<<>>, <<" ">>, <<"a">>, <<" ", "a">>}

\* Texts the remote model can answer with.
ResponseTexts == StrsUpTo(MaxTextLen)

\* str(e) of the exception the remote call raised.
ExcTexts == {<<"q">>, <<"d">>}

\* Exceptions (all subclasses of Exception) of model.generate_content and response.text.
ExcClasses == {"Transient", "Auth", "InvalidRequest", "ValueError"}

-----------------------------------------------------------------------------
(* app.py constants *)

tone_options == <<"Formal", "Professional", "Friendly", "Casual", "Urgent", "Persuasive">>

Range(s) == {s[i] : i \in 1..Len(s)}

\* The grave accent (U+0060) of the f-string, which a TLA+ string cannot hold.
BT == "U+0060"

Lit0 == <<"\n    As an expert email writing assistant, your task is to craft a professional and effective email.\n\n    **Instructions:**\n    1.  Create a clear, relevant, and compelling subject line. Do not use placeholders like \"[Subject]\".\n    2.  The email must be addressed to ", BT>>
Lit1 == <<BT, " and signed by ", BT>>
Lit2 == <<BT, ".\n    3.  The tone of the email must be ", BT>>
Lit3 == <<BT, ".\n    4.  The core purpose is: \"">>
Lit4 == <<"\".\n    5.  You must seamlessly integrate the following key points into the email body:\n        ", BT, BT, BT, "\n        ">>
Lit5 == <<"\n        ", BT, BT, BT, "\n    6.  Ensure the final output is only the email itself (Subject, Body, Closing), with no extra commentary or notes.\n\n    **GENERATE THE EMAIL NOW**\n    ">>

ErrorPrefix == <<"An error occurred while generating the email: ">>

-----------------------------------------------------------------------------
(* load_api_key *)

\* Outcome of load_api_key for what it meets:
\*   secrets: "found" | "KeyError" | "FileNotFoundError" | "OtherError" (first try block)
\*   dotenv:  "ok" | "raises"           (load_dotenv)
\*   api_key: "None" | "" | "key"       (os.getenv)
\*   configure: "ok" | "raises"         (genai.configure in the fallback)
load_api_key_emptyKeyAccepted(secrets, dotenv, api_key, configure) ==
    IF secrets = "found" THEN "secrets"
    ELSE IF secrets \in {"KeyError", "FileNotFoundError"} THEN
        IF dotenv = "raises" THEN "stopped"
        ELSE IF api_key = "None" THEN "stopped"
        ELSE IF configure = "raises" THEN "stopped"
        ELSE "dotenv"
    ELSE "crashed"

load_api_key(secrets, dotenv, api_key, configure) ==
    IF secrets = "found" THEN "secrets"
    ELSE IF secrets \in {"KeyError", "FileNotFoundError"} THEN
        IF dotenv = "raises" THEN "stopped"
        ELSE IF api_key \in {"None", ""} THEN "stopped"
        ELSE IF configure = "raises" THEN "stopped"
        ELSE "dotenv"
    ELSE "crashed"

-----------------------------------------------------------------------------
(* generate_email and the validation *)

\* Python truth value of a str.
Truthy(s) == Len(s) > 0

\* all([...]) over a list of str.
all(list) == \A i \in 1..Len(list) : Truthy(list[i])

FieldsFilled_keyPointsUnchecked(sender_name, recipient_name, purpose, key_points) ==
    all(<<sender_name, recipient_name, purpose>>)

\* all([sender_name, recipient_name, purpose, key_points])
FieldsFilled(sender_name, recipient_name, purpose, key_points) ==
    all(<<sender_name, recipient_name, purpose, key_points>>)

RenderPrompt_namesSwapped(recipient_name, sender_name, purpose, tone, key_points) ==
    Lit0 \o sender_name \o Lit1 \o recipient_name \o Lit2 \o <<tone>>
         \o Lit3 \o purpose \o Lit4 \o key_points \o Lit5

\* The f-string of generate_email.
RenderPrompt(recipient_name, sender_name, purpose, tone, key_points) ==
    Lit0 \o recipient_name \o Lit1 \o sender_name \o Lit2 \o <<tone>>
         \o Lit3 \o purpose \o Lit4 \o key_points \o Lit5

Caught_onlyValueError(cls) == cls = "ValueError"

Caught_transientOnly(cls) == cls = "Transient"

\* except Exception: every class the remote call raises is a subclass of Exception.
Caught(cls) == cls \in ExcClasses

\* The except handler returns at once: no attempt follows a failed one.
ShouldRetry(cls, attempts) == FALSE

RECURSIVE LStrip(_)
LStrip(s) == IF s # <<>> /\ Head(s) \in Whitespace THEN LStrip(Tail(s)) ELSE s

ReturnValue_stripped(r) ==
    IF r.status = "ok" THEN LStrip(r.text) ELSE ErrorPrefix \o r.text

\* What generate_email returns for the response r of the remote call.
ReturnValue(r) ==
    IF r.status = "ok" THEN r.text ELSE ErrorPrefix \o r.text

-----------------------------------------------------------------------------
(* State *)

NoEnv == [secrets |-> "unread", dotenv |-> "unread", api_key |-> "unread", configure |-> "unread"]

DefaultForm ==
    [sender_name |-> <<>>, recipient_name |-> <<>>, purpose |-> <<>>,
     tone |-> tone_options[1], key_points |-> <<>>]

NoResponse == [status |-> "none", class |-> "none", text |-> <<>>]

EmptyPage ==
    [key |-> "none", form |-> FALSE, warning |-> FALSE, success |-> FALSE,
     draftShown |-> FALSE, draft |-> <<>>]

Init ==
    /\ pc = "start"
    /\ env = NoEnv
    /\ submitted = FALSE
    /\ form = DefaultForm
    /\ prompt = <<>>
    /\ calls = 0
    /\ response = NoResponse
    /\ generated_email = <<>>
    /\ ui = EmptyPage
    /\ shownFailures = {}

-----------------------------------------------------------------------------
(* Actions *)

\* Lines 30-54: load_api_key(); the script stops, crashes or goes on to the form.
LoadApiKey ==
    /\ pc = "start"
    /\ \E s \in {"found", "KeyError", "FileNotFoundError", "OtherError"} :
       \E d \in IF s \in {"KeyError", "FileNotFoundError"} THEN {"ok", "raises"} ELSE {"unread"} :
       \E k \in IF d = "ok" THEN {"None", "", "key"} ELSE {"unread"} :
       \E c \in IF k = "key" THEN {"ok", "raises"} ELSE {"unread"} :
         LET out == load_api_key(s, d, k, c) IN
           /\ env' = [secrets |-> s, dotenv |-> d, api_key |-> k, configure |-> c]
           /\ pc' = IF out \in {"secrets", "dotenv"} THEN "ready" ELSE out
           /\ ui' = [ui EXCEPT !.key = out]
    /\ UNCHANGED <<submitted, form, prompt, calls, response, generated_email, shownFailures>>

\* Lines 86-132 with submitted = False: first load of the page, the widgets hold
\* their defaults and nothing is generated.
PageLoad ==
    /\ pc = "ready"
    /\ submitted' = FALSE
    /\ form' = DefaultForm
    /\ ui' = [ui EXCEPT !.form = TRUE]
    /\ pc' = "done"
    /\ UNCHANGED <<env, prompt, calls, response, generated_email, shownFailures>>

\* Lines 90-111 with submitted = True: the form is rendered and its widgets
\* return what the user typed.
Submit ==
    /\ pc = "ready"
    /\ \E sn \in FieldInputs, rn \in FieldInputs, p \in FieldInputs,
          kp \in FieldInputs, t \in Range(tone_options) :
         form' = [sender_name |-> sn, recipient_name |-> rn, purpose |-> p,
                  tone |-> t, key_points |-> kp]
    /\ submitted' = TRUE
    /\ ui' = [ui EXCEPT !.form = TRUE]
    /\ pc' = "validating"
    /\ UNCHANGED <<env, prompt, calls, response, generated_email, shownFailures>>

\* Lines 115-121 and 61-79: the validation, then the warning or the prompt
\* and the entry into model.generate_content.
Validate ==
    /\ pc = "validating"
    /\ IF ~FieldsFilled(form.sender_name, form.recipient_name, form.purpose, form.key_points)
       THEN /\ ui' = [ui EXCEPT !.warning = TRUE]
            /\ pc' = "done"
            /\ UNCHANGED prompt
       ELSE /\ prompt' = RenderPrompt(form.recipient_name, form.sender_name, form.purpose,
                                      form.tone, form.key_points)
            /\ pc' = "generating"
            /\ UNCHANGED ui
    /\ UNCHANGED <<env, submitted, form, calls, response, generated_email, shownFailures>>

\* Lines 121-126: generate_email has returned value v.
Display(v) ==
    /\ generated_email' = v
    /\ ui' = [ui EXCEPT !.success = TRUE, !.draftShown = TRUE, !.draft = v]
    /\ pc' = "done"

\* Lines 79-80, 121-126: the remote call answers with text t.
RemoteReturns ==
    /\ pc = "generating"
    /\ \E t \in ResponseTexts :
         LET r == [status |-> "ok", class |-> "none", text |-> t] IN
           /\ response' = r
           /\ Display(ReturnValue(r))
    /\ calls' = calls + 1
    /\ UNCHANGED <<env, submitted, form, prompt, shownFailures>>

\* Lines 79-82, 121-126: model.generate_content or response.text raises.
RemoteRaises ==
    /\ pc = "generating"
    /\ \E cls \in ExcClasses, msg \in ExcTexts :
         LET r == [status |-> "error", class |-> cls, text |-> msg] IN
           /\ response' = r
           /\ IF ~Caught(cls)
              THEN /\ pc' = "crashed"
                   /\ UNCHANGED <<generated_email, ui, shownFailures>>
              ELSE IF ShouldRetry(cls, calls + 1)
              THEN /\ pc' = "generating"
                   /\ UNCHANGED <<generated_email, ui, shownFailures>>
              ELSE /\ Display(ReturnValue(r))
                   /\ shownFailures' = shownFailures \cup {ReturnValue(r)}
    /\ calls' = calls + 1
    /\ UNCHANGED <<env, submitted, form, prompt>>

\* The next interaction (or a reload) runs the script again from the top.
Rerun ==
    /\ pc \in {"done", "stopped", "crashed"}
    /\ pc' = "start"
    /\ env' = NoEnv
    /\ submitted' = FALSE
    /\ form' = DefaultForm
    /\ prompt' = <<>>
    /\ calls' = 0
    /\ response' = NoResponse
    /\ generated_email' = <<>>
    /\ ui' = EmptyPage
    /\ UNCHANGED shownFailures

Next ==
    \/ LoadApiKey
    \/ PageLoad
    \/ Submit
    \/ Validate
    \/ RemoteReturns
    \/ RemoteRaises
    \/ Rerun

Spec == Init /\ [][Next]_vars

\* The script runs to its end once started, and the remote call returns or raises.
FairSpec ==
    /\ Spec
    /\ WF_vars(Validate)
    /\ WF_vars(RemoteReturns \/ RemoteRaises)

-----------------------------------------------------------------------------
(* Vocabulary of the properties *)

\* Empty or made of whitespace only.
Blank(s) == \A i \in 1..Len(s) : s[i] \in Whitespace

WhitespaceOnly(s) == s # <<>> /\ Blank(s)

RequiredFields == {form.sender_name, form.recipient_name, form.purpose, form.key_points}

SomeFieldEmpty == <<>> \in RequiredFields

SomeFieldWhitespaceOnly == \E f \in RequiredFields : WhitespaceOnly(f)

AllFieldsNonBlank == \A f \in RequiredFields : ~Blank(f)

RemoteFailed == response.status = "error"

RemoteSucceeded == response.status = "ok"

ValidationFailureOutcome == ui.warning /\ ~ui.draftShown /\ ~ui.success

GenerationOutcome == ui.draftShown /\ ~ui.warning

\* load_api_key met no usable key: the secrets lookup failed and the .env
\* loading raised, the variable was unset or empty, or configuring raised.
NoKeyFound ==
    /\ env.secrets \in {"KeyError", "FileNotFoundError"}
    /\ \/ env.dotenv = "raises"
       \/ env.api_key \in {"None", ""}
       \/ env.configure = "raises"

-----------------------------------------------------------------------------
(* Properties *)

\* C1: a submit with an empty required field ends in the validation warning,
\* and model.generate_content is not called in that run.
C1_EmptyFieldWarnsWithoutCall ==
    (submitted /\ SomeFieldEmpty) =>
        /\ calls = 0
        /\ prompt = <<>>
        /\ pc \in {"validating", "done"}
        /\ (pc = "done" => ValidationFailureOutcome)

C1_Witness ==
    /\ pc = "done"
    /\ submitted
    /\ form.key_points = <<>>
    /\ form.sender_name # <<>> /\ form.recipient_name # <<>> /\ form.purpose # <<>>
    /\ ui.warning

\* C2: a submit with a required field made of whitespace only is rejected by
\* the validation like an empty one, and generation is not started.
C2_WhitespaceFieldRejected ==
    (submitted /\ SomeFieldWhitespaceOnly) =>
        /\ calls = 0
        /\ pc \in {"validating", "done"}
        /\ (pc = "done" => ValidationFailureOutcome)

\* C3: when the remote call fails, the success outcome (the success banner with
\* the text shown as the draft) is not reached.
C3_FailedCallNeverShowsSuccess ==
    RemoteFailed => ~ui.success

\* C4: whatever the remote call raises, generate_email returns a value to its
\* caller and the run goes on to its displayed outcome; the run never crashes
\* after a call.
C4_GenerateEmailAlwaysReturns ==
    /\ RemoteFailed =>
          /\ pc = "done"
          /\ ui.draftShown
          /\ ui.draft = generated_email
          /\ generated_email # <<>>
    /\ pc = "crashed" => calls = 0

C4_Witness ==
    /\ pc = "done"
    /\ RemoteFailed
    /\ response.class = "Auth"
    /\ ui.draftShown

\* C5: a failure returned after transient failures of the remote call has been
\* tried 3 times (1 call and 2 retries) before it is returned; an authentication
\* or malformed-request failure is returned after exactly 1 call.
C5_RetriesTransientFailures ==
    (pc = "done" /\ RemoteFailed) =>
        IF response.class = "Transient" THEN calls = 3 ELSE calls = 1

\* C6: the text shown after a failed generation does not depend on the text of
\* the underlying exception: all failures of a session show one same message.
C6_FailureMessageGeneric ==
    Cardinality(shownFailures) <= 1

\* C7: a submit whose four required fields are all non-blank passes the
\* validation, and the generation client is called with the prompt made of the
\* template and exactly that submit's recipient, sender, tone, purpose and key
\* points.
C7_NonBlankFieldsAreGenerated ==
    (submitted /\ AllFieldsNonBlank /\ pc # "validating") =>
        /\ ~ui.warning
        /\ pc \in {"generating", "done"}
        /\ prompt = Lit0 \o form.recipient_name \o Lit1 \o form.sender_name \o Lit2
                         \o <<form.tone>> \o Lit3 \o form.purpose \o Lit4
                         \o form.key_points \o Lit5
        /\ (pc = "done" => calls = 1)

C7_Witness ==
    /\ pc = "done"
    /\ submitted
    /\ AllFieldsNonBlank
    /\ form.sender_name # form.recipient_name
    /\ form.tone = tone_options[3]
    /\ calls = 1

\* C8: when the remote call succeeds with text t, generate_email returns exactly
\* t and exactly t is displayed as the generated email.
C8_SuccessTextPassedThrough ==
    RemoteSucceeded =>
        /\ generated_email = response.text
        /\ ui.draftShown
        /\ ui.draft = response.text

C8_Witness ==
    /\ pc = "done"
    /\ RemoteSucceeded
    /\ response.text = <<" ">>
    /\ ui.draft = <<" ">>

\* C9: a run in which load_api_key finds no key is stopped before the form is
\* rendered: no submit is processed and model.generate_content is not called.
C9_MissingKeyStopsRun ==
    NoKeyFound =>
        /\ pc = "stopped"
        /\ ~ui.form
        /\ ~submitted
        /\ calls = 0
        /\ response = NoResponse

C9_Witness ==
    /\ pc = "stopped"
    /\ env.secrets = "KeyError"
    /\ env.api_key = ""

\* C10: every accepted submit ends in exactly one outcome, the validation
\* warning or one displayed generation result, never both and never neither.
C10_SubmitReachesOneOutcome ==
    /\ [](pc = "done" /\ submitted => (ValidationFailureOutcome \/ GenerationOutcome)
                                       /\ ~(ui.warning /\ ui.draftShown))
    /\ (pc = "validating") ~> (pc = "done" /\ submitted /\ (ui.warning # ui.draftShown))

C10_Witness ==
    /\ pc = "done"
    /\ submitted
    /\ GenerationOutcome
    /\ RemoteSucceeded
    /\ response.text = <<"a">>
    /\ calls = 1

====
